---- MODULE Spec2Model ----
(***************************************************************************)
(* Model of create_app_icon.py: the icon generator writes a constant SVG   *)
(* document to /tmp/joanie_icon.svg inside a `with open(..., 'w')` block,  *)
(* prints six fixed status messages and returns True.  The file system,    *)
(* the console and the process exit status are part of the state; the      *)
(* operating system decides nondeterministically whether the open, the     *)
(* data transfer or the close fails.                                       *)
(*                                                                         *)
(* A text is a sequence of string pieces whose concatenation is the text;  *)
(* a prefix of a text is a leading subsequence of its pieces.              *)
(***************************************************************************)
EXTENDS Naturals, Sequences, FiniteSets

\* Number of times the program is run in succession on the same file system.
MaxRuns == 2

----------------------------------------------------------------------------
\* The constant document, svg_content, cut into consecutive pieces.
Template ==
  <<
    \* lines 12
    "<?xml version=\"1.0\" encoding=\"UTF-8\"?>",
    \* lines 13
    "\n<svg width=\"1024\" height=\"1024\" viewBox=\"0 0 1024 1024\" xmlns=\"http://www.w3.org/2000/svg\">",
    \* lines 14-20
    "\n    <defs>\n        <linearGradient id=\"grad1\" x1=\"0%\" y1=\"0%\" x2=\"100%\" y2=\"100%\">\n            <stop offset=\"0%\" style=\"stop-color:#FF6B9D;stop-opacity:1\" />\n            <stop offset=\"50%\" style=\"stop-color:#C4E8C7;stop-opacity:1\" />\n            <stop offset=\"100%\" style=\"stop-color:#FFD93D;stop-opacity:1\" />\n        </linearGradient>\n    </defs>",
    \* lines 21-22
    "\n    <rect width=\"1024\" height=\"1024\" rx=\"180\" ry=\"180\" fill=\"url(#grad1)\"/>\n    ",
    \* lines 23-28
    "\n    <!-- Art palette icon -->\n    <circle cx=\"512\" cy=\"400\" r=\"80\" fill=\"white\" opacity=\"0.9\"/>\n    <circle cx=\"480\" cy=\"380\" r=\"25\" fill=\"#FF6B9D\"/>\n    <circle cx=\"544\" cy=\"380\" r=\"25\" fill=\"#C4E8C7\"/>\n    <circle cx=\"512\" cy=\"420\" r=\"25\" fill=\"#FFD93D\"/>\n    ",
    \* lines 29-32
    "\n    <!-- Brush -->\n    <rect x=\"620\" y=\"350\" width=\"8\" height=\"60\" fill=\"#8B4513\" rx=\"4\"/>\n    <path d=\"M624 350 Q628 340 632 350 Q628 360 624 350\" fill=\"#FF6B9D\"/>\n    ",
    \* lines 33-40
    "\n    <!-- Stars around -->\n    <g fill=\"white\" opacity=\"0.8\">\n        <polygon points=\"200,200 210,230 240,230 215,245 225,275 200,260 175,275 185,245 160,230 190,230\" />\n        <polygon points=\"800,180 810,210 840,210 815,225 825,255 800,240 775,255 785,225 760,210 790,210\" />\n        <polygon points=\"180,800 190,830 220,830 195,845 205,875 180,860 155,875 165,845 140,830 170,830\" />\n        <polygon points=\"850,750 860,780 890,780 865,795 875,825 850,810 825,825 835,795 810,780 840,780\" />\n    </g>\n    ",
    \* lines 41-43
    "\n    <!-- App name -->\n    <text x=\"512\" y=\"600\" font-family=\"Arial, sans-serif\" font-size=\"120\" font-weight=\"bold\" \n          text-anchor=\"middle\" fill=\"white\">",
    \* lines 43
    "Joanie",
    \* lines 43-48
    "</text>\n    \n    <!-- Subtitle -->\n    <text x=\"512\" y=\"680\" font-family=\"Arial, sans-serif\" font-size=\"40\" \n          text-anchor=\"middle\" fill=\"white\" opacity=\"0.9\">Artwork</text>\n</svg>"
  >>

\* The path literal of the open() call.
ICON_PATH == "/tmp/joanie_icon.svg"

\* The path that the last printed message names but that is never opened.
PNG_PATH == "/tmp/joanie_icon.png"

\* A path outside /tmp, present to observe writes that go astray.
ALT_PATH == "/var/tmp/joanie_icon.svg"

Paths == {ICON_PATH, PNG_PATH, ALT_PATH}

\* The six print() calls in program order; each call emits a sequence of
\* console lines (the third one starts with "\n" and so emits two lines),
\* and each console line is a text.
PrintShuffled ==
  << << <<"SVG content created successfully!">> >>,
     << <<"Created SVG icon at", " ", ICON_PATH>> >>,
     << <<>>, <<"To create PNG from SVG, you can use:">> >>,
     << <<"1. Online converter (recommended for this step)">> >>,
     << <<"2. Install ImageMagick: brew install imagemagick">> >>,
     << <<"3. Then run: convert ", ICON_PATH, " ", PNG_PATH>> >> >>

PrintOnlyThree ==
  << << <<"Created SVG icon at", " ", ICON_PATH>> >>,
     << <<"SVG content created successfully!">> >>,
     << <<"To create PNG from SVG, you can use:">> >>,
     << >>, << >>, << >> >>

PrintCalls ==
  << << <<"Created SVG icon at", " ", ICON_PATH>> >>,
     << <<"SVG content created successfully!">> >>,
     << <<>>, <<"To create PNG from SVG, you can use:">> >>,
     << <<"1. Online converter (recommended for this step)">> >>,
     << <<"2. Install ImageMagick: brew install imagemagick">> >>,
     << <<"3. Then run: convert ", ICON_PATH, " ", PNG_PATH>> >> >>

\* Program counter values of the print statements, in program order.
PrintPc == <<"print54", "print55", "print56", "print57", "print58", "print59">>

\* The statement that follows the i-th print.
AfterPrint(i) == IF i < Len(PrintPc) THEN PrintPc[i + 1] ELSE "return61"

----------------------------------------------------------------------------
\* Files.  A path holds a record: whether a file exists there, whether the
\* user may write to it, and its contents.
NoFile == [exists |-> FALSE, w |-> FALSE, data |-> <<>>]

File(writable, contents) == [exists |-> TRUE, w |-> writable, data |-> contents]

IsPrefix(s, t) == Len(s) <= Len(t) /\ SubSeq(t, 1, Len(s)) = s

IsProperPrefix(s, t) == IsPrefix(s, t) /\ Len(s) < Len(t)

\* What /tmp/joanie_icon.svg may hold before the first run: nothing, an empty
\* file, unrelated text, a document cut short, the document itself, or the
\* document followed by more text.
OldContents ==
  { <<>>, <<"old">>, SubSeq(Template, 1, 2), Template, Template \o <<"tail">> }

InitialIconFiles ==
  {NoFile} \cup {File(wr, c) : wr \in BOOLEAN, c \in OldContents}

\* Process environments and argument vectors the program may be started with.
Environments == { {}, {"TMPDIR=/var/tmp"} }

\* The path the program opens: a literal, whatever the environment holds.
TargetPathFromEnv(env) ==
  IF "TMPDIR=/var/tmp" \in env THEN ALT_PATH ELSE ICON_PATH

TargetPath(env) == ICON_PATH

\* open(path, 'w') is O_WRONLY|O_CREAT|O_TRUNC: an existing file needs write
\* permission on the file, a missing one write permission on the directory.
CanOpenForced(f, dirW) == TRUE

CanOpen(f, dirW) == IF f.exists THEN f.w ELSE dirW

\* The file right after a successful open in mode 'w': created if missing,
\* emptied if present.
OpenedAppend(f) == IF f.exists THEN f ELSE File(TRUE, <<>>)

Opened(f) == IF f.exists THEN File(f.w, <<>>) ELSE File(TRUE, <<>>)

\* The with statement's exit: the handle is closed and a pending exception
\* is not suppressed.
WithExitSuppress(e) == "none"

WithExit(e) == e

\* Handles left open after the with statement has closed its file.
Leaked(n) == n

Released(n) == n - 1

\* Exit status of the interpreter: 0 when the module body ran to its end,
\* 1 when an exception reached the top level.
ExitStatusZero(e) == 0

ExitStatus(e) == IF e = "none" THEN 0 ELSE 1

----------------------------------------------------------------------------
VARIABLES
  fs,           \* the file system: path -> file record
  dirWritable,  \* whether the user may create entries in the target directory
  environ,      \* the process environment
  run,          \* number of runs started so far
  pc,           \* the statement the current run is at
  nOpen,        \* number of open handles held by the process
  buf,          \* data handed to f.write() that has not reached the file yet
  before,       \* /tmp/joanie_icon.svg as it was when the current run started
  stdout,       \* console lines printed by the current run
  events,       \* open / write / close calls made by the current run
  fault,        \* the I/O error the operating system reported in this run
  exc,          \* the exception currently propagating
  ret,          \* <<v>> once create_app_icon() has returned v
  exitCode,     \* <<c>> once the process has exited with status c
  prev          \* outcome of the previous run

vars == <<fs, dirWritable, environ, run, pc, nOpen, buf, before, stdout,
          events, fault, exc, ret, exitCode, prev>>

Init ==
  /\ \E f \in InitialIconFiles :
       fs = [p \in Paths |->
               IF p = ICON_PATH THEN f
               ELSE IF p = PNG_PATH THEN File(TRUE, <<"png">>)
               ELSE NoFile]
  /\ dirWritable \in BOOLEAN
  /\ environ \in Environments
  /\ run = 0
  /\ pc = "idle"
  /\ nOpen = 0
  /\ buf = <<>>
  /\ before = fs[ICON_PATH]
  /\ stdout = <<>>
  /\ events = <<>>
  /\ fault = "none"
  /\ exc = "none"
  /\ ret = <<>>
  /\ exitCode = <<>>
  /\ prev = [ran |-> FALSE, ok |-> FALSE, file |-> NoFile]

\* The program is started: __main__ calls create_app_icon(), which binds
\* svg_content to the constant document.
Start ==
  /\ pc \in {"idle", "exited"}
  /\ run < MaxRuns
  /\ run' = run + 1
  /\ pc' = "open51"
  /\ before' = fs[ICON_PATH]
  /\ prev' = IF pc = "exited"
               THEN [ran |-> TRUE, ok |-> exitCode = <<0>>, file |-> fs[ICON_PATH]]
               ELSE prev
  /\ stdout' = <<>>
  /\ events' = <<>>
  /\ fault' = "none"
  /\ exc' = "none"
  /\ ret' = <<>>
  /\ exitCode' = <<>>
  /\ UNCHANGED <<fs, dirWritable, environ, nOpen, buf>>

\* open('/tmp/joanie_icon.svg', 'w') succeeds: the file is created or emptied.
OpenOk ==
  /\ pc = "open51"
  /\ CanOpen(fs[TargetPath(environ)], dirWritable)
  /\ fs' = [fs EXCEPT ![TargetPath(environ)] = Opened(@)]
  /\ nOpen' = nOpen + 1
  /\ events' = Append(events, "open")
  /\ pc' = "write52"
  /\ UNCHANGED <<dirWritable, environ, run, buf, before, stdout, fault, exc,
                 ret, exitCode, prev>>

\* open() is refused: PermissionError leaves the function, nothing was opened.
OpenFail ==
  /\ pc = "open51"
  /\ ~CanOpen(fs[TargetPath(environ)], dirWritable)
  /\ fault' = "EACCES"
  /\ exc' = "EACCES"
  /\ pc' = "raised"
  /\ UNCHANGED <<fs, dirWritable, environ, run, nOpen, buf, before, stdout,
                 events, ret, exitCode, prev>>

\* f.write(svg_content): the whole document is handed to the file object.
WriteCall ==
  /\ pc = "write52"
  /\ buf' = Template
  /\ events' = Append(events, "write")
  /\ pc' = "flush"
  /\ UNCHANGED <<fs, dirWritable, environ, run, nOpen, before, stdout, fault,
                 exc, ret, exitCode, prev>>

\* The next piece of the pending data reaches the file.
FlushSeg ==
  /\ pc = "flush"
  /\ buf # <<>>
  /\ fs' = [fs EXCEPT ![TargetPath(environ)].data = Append(@, Head(buf))]
  /\ buf' = Tail(buf)
  /\ UNCHANGED <<dirWritable, environ, run, pc, nOpen, before, stdout, events,
                 fault, exc, ret, exitCode, prev>>

\* The device refuses more data (disk full) while some is still pending:
\* OSError is raised inside the with block.
FlushFail ==
  /\ pc = "flush"
  /\ buf # <<>>
  /\ fault' = "ENOSPC"
  /\ exc' = "ENOSPC"
  /\ pc' = "unwind"
  /\ UNCHANGED <<fs, dirWritable, environ, run, nOpen, buf, before, stdout,
                 events, ret, exitCode, prev>>

\* The with block ends normally and the file is closed.
CloseOk ==
  /\ pc = "flush"
  /\ buf = <<>>
  /\ nOpen' = Released(nOpen)
  /\ events' = Append(events, "close")
  /\ pc' = PrintPc[1]
  /\ UNCHANGED <<fs, dirWritable, environ, run, buf, before, stdout, fault,
                 exc, ret, exitCode, prev>>

\* All data was transferred but the close itself reports an error: the
\* descriptor is released all the same and OSError leaves the function.
CloseFail ==
  /\ pc = "flush"
  /\ buf = <<>>
  /\ nOpen' = Released(nOpen)
  /\ events' = Append(events, "close")
  /\ fault' = "EIO"
  /\ exc' = "EIO"
  /\ pc' = "raised"
  /\ UNCHANGED <<fs, dirWritable, environ, run, buf, before, stdout, ret,
                 exitCode, prev>>

\* The with block is left by an exception: the file is closed, the pending
\* data is dropped and the exception goes on.
Unwind ==
  /\ pc = "unwind"
  /\ nOpen' = Released(nOpen)
  /\ events' = Append(events, "close")
  /\ buf' = <<>>
  /\ exc' = WithExit(exc)
  /\ pc' = IF WithExit(exc) = "none" THEN PrintPc[1] ELSE "raised"
  /\ UNCHANGED <<fs, dirWritable, environ, run, before, stdout, fault, ret,
                 exitCode, prev>>

\* One of the six print() calls.
PrintStmt ==
  \E i \in 1..Len(PrintPc) :
    /\ pc = PrintPc[i]
    /\ stdout' = stdout \o PrintCalls[i]
    /\ pc' = AfterPrint(i)
    /\ UNCHANGED <<fs, dirWritable, environ, run, nOpen, buf, before, events,
                   fault, exc, ret, exitCode, prev>>

\* return True
Return ==
  /\ pc = "return61"
  /\ ret' = <<TRUE>>
  /\ pc' = "returned"
  /\ UNCHANGED <<fs, dirWritable, environ, run, nOpen, buf, before, stdout,
                 events, fault, exc, exitCode, prev>>

\* The module body ends (the returned value is dropped) or the exception
\* reaches the top level; the interpreter exits.
Exit ==
  /\ pc \in {"returned", "raised"}
  /\ exitCode' = <<ExitStatus(exc)>>
  /\ pc' = "exited"
  /\ UNCHANGED <<fs, dirWritable, environ, run, nOpen, buf, before, stdout,
                 events, fault, exc, ret, prev>>

\* The steps of a run, once started.
Step ==
  \/ OpenOk \/ OpenFail \/ WriteCall \/ FlushSeg \/ FlushFail
  \/ CloseOk \/ CloseFail \/ Unwind \/ PrintStmt \/ Return \/ Exit

Next == Start \/ Step

Spec == Init /\ [][Next]_vars

\* A started run is single-threaded and runs to completion.
LiveSpec == Spec /\ WF_vars(Step)

----------------------------------------------------------------------------
\* Vocabulary of the properties.

IconFile == fs[ICON_PATH]

Terminal == pc \in {"returned", "raised", "exited"}

Running == pc \notin {"idle", "returned", "raised", "exited"}

StartsWith(text, prefix) == IsPrefix(prefix, text)

Contains(text, piece) == \E i \in 1..Len(text) : text[i] = piece

XmlDeclaration == "<?xml version=\"1.0\" encoding=\"UTF-8\"?>"

Confirmation == <<"Created SVG icon at", " ", ICON_PATH>>

Printed == Contains(stdout, Confirmation)

\* The open, the transfer of the whole document and the close all succeeded.
WriteSucceeded == fault = "none" /\ events = <<"open", "write", "close">>

\* The console output of a complete run, line by line.
ConsoleLines ==
  << Confirmation,
     <<"SVG content created successfully!">>,
     <<>>,
     <<"To create PNG from SVG, you can use:">>,
     <<"1. Online converter (recommended for this step)">>,
     <<"2. Install ImageMagick: brew install imagemagick">>,
     <<"3. Then run: convert ", ICON_PATH, " ", PNG_PATH>> >>

----------------------------------------------------------------------------
\* C1: whenever create_app_icon() has returned, a file exists at
\* /tmp/joanie_icon.svg and its contents are exactly the constant document,
\* whatever was there before the call.
C1_ContentsEqualTemplate ==
  ret = <<TRUE>> => IconFile.exists /\ IconFile.data = Template

\* A run returned although the file held the document plus more text before.
C1_Witness ==
  /\ ret = <<TRUE>>
  /\ before.exists
  /\ before.data = Template \o <<"tail">>

\* C2: a second successful run right after a successful run leaves the file
\* exactly as the first run left it: it overwrites, it does not append.
C2_Idempotent ==
  (ret = <<TRUE>> /\ prev.ran /\ prev.ok) => IconFile = prev.file

\* Two runs in succession both returned.
C2_Witness ==
  /\ run = 2
  /\ ret = <<TRUE>>
  /\ prev.ran /\ prev.ok
  /\ before.data = Template

\* C3: the confirmation line is on the console only in a run whose open,
\* write and close succeeded, and a finished run whose write succeeded has
\* printed it.
C3_ConfirmationIffWritten ==
  /\ Printed => WriteSucceeded
  /\ Terminal => (Printed <=> WriteSucceeded)

\* One finished run printed the line; the next one failed and did not.
C3_Witness ==
  /\ pc = "exited"
  /\ fault = "ENOSPC"
  /\ ~Printed
  /\ prev.ok

\* C4 as stated: with the target directory non-writable every run fails and
\* leaves the file as it was.
C4_NonWritableDirAlwaysFails ==
  (Terminal /\ ~dirWritable) => (fault # "none" /\ IconFile = before)

\* C4 amended: with the target directory non-writable and no file at the
\* path that the user may write, the open is refused, the run fails and the
\* file is neither created nor modified.
C4_NonWritableDirNoWritableFile ==
  (Terminal /\ ~dirWritable /\ ~(before.exists /\ before.w))
    => (fault = "EACCES" /\ exc = "EACCES" /\ ret = <<>> /\ IconFile = before)

\* A run failed on a missing file in a non-writable directory.
C4_Witness ==
  /\ pc = "raised"
  /\ ~dirWritable
  /\ ~before.exists
  /\ ~IconFile.exists

\* C5: an I/O failure is neither caught nor translated: the same error
\* propagates, no statement after the with block runs, the function does not
\* return True, and the process exits with status 0 exactly when no I/O
\* failure occurred.
C5_FailurePropagates ==
  /\ fault # "none" =>
       /\ exc = fault
       /\ pc \in {"unwind", "raised", "exited"}
       /\ ret = <<>>
       /\ exitCode # <<0>>
  /\ pc = "exited" => (exitCode = <<0>> <=> WriteSucceeded)

\* The process exited abnormally after the disk filled up half way.
C5_Witness ==
  /\ pc = "exited"
  /\ fault = "ENOSPC"
  /\ exitCode = <<1>>
  /\ IconFile.data = SubSeq(Template, 1, 4)

\* C6: at most one handle is open at any time, and none is open once the
\* run has returned or failed.
C6_HandleReleased ==
  /\ nOpen <= 1
  /\ (Terminal \/ pc \in {"idle", "return61"} \/ Contains(PrintPc, pc)) => nOpen = 0

\* A run failed during the write and holds no handle.
C6_Witness ==
  /\ pc = "raised"
  /\ fault = "ENOSPC"
  /\ events = <<"open", "write", "close">>
  /\ nOpen = 0

\* C7 as stated: after a successful run in a writable directory the file
\* starts with the XML declaration and contains Joanie, and the console shows
\* three lines, the first beginning with "Created SVG icon at".
C7_ThreeConsoleLines ==
  (ret = <<TRUE>> /\ dirWritable) =>
    /\ StartsWith(IconFile.data, <<XmlDeclaration>>)
    /\ Contains(IconFile.data, "Joanie")
    /\ Len(stdout) = 3
    /\ StartsWith(stdout[1], <<"Created SVG icon at">>)

\* C7 amended: the same, with seven console lines (six print calls, the
\* third of which emits an empty line first).
C7_SevenConsoleLines ==
  (ret = <<TRUE>> /\ dirWritable) =>
    /\ StartsWith(IconFile.data, <<XmlDeclaration>>)
    /\ Contains(IconFile.data, "Joanie")
    /\ Len(stdout) = 7
    /\ StartsWith(stdout[1], <<"Created SVG icon at">>)

\* A run created the file in a writable directory and returned.
C7_Witness ==
  /\ ret = <<TRUE>>
  /\ dirWritable
  /\ ~before.exists
  /\ stdout # <<>>

\* C8: no step of any run, successful or failed, changes a file other than
\* /tmp/joanie_icon.svg, whatever the process environment holds.
C8_OnlyIconFileChanges ==
  [][\A p \in Paths \ {ICON_PATH} : fs'[p] = fs[p]]_vars

\* A run started with TMPDIR set wrote the document to the fixed path.
C8_Witness ==
  /\ ret = <<TRUE>>
  /\ environ # {}
  /\ IconFile # before
  /\ IconFile.data = Template

\* The order of events within a run.
OrderInv ==
  /\ IsPrefix(events, <<"open", "write", "close">>)
  /\ IsPrefix(stdout, ConsoleLines)
  /\ stdout # <<>> =>
       /\ events = <<"open", "write", "close">>
       /\ IconFile.data = Template
       /\ buf = <<>>
       /\ nOpen = 0
  /\ ret = <<TRUE>> => stdout = ConsoleLines

\* C9: a run opens, writes and closes the file, then prints the console
\* lines in their fixed order, then returns True; nothing is printed before
\* the file is completely written and closed; and every started run ends,
\* by returning or by an I/O failure.
C9_FixedOrderAndTermination ==
  /\ []OrderInv
  /\ Running ~> (pc \in {"returned", "raised"})

\* A run went through every event and returned.
C9_Witness ==
  /\ pc = "returned"
  /\ events = <<"open", "write", "close">>
  /\ stdout = ConsoleLines

====
